---- MODULE Spec2Model ----
(***************************************************************************)
(* A model of geoglows/reports.py:                                         *)
(*   - _add_return_period_table: the exceedance-probability table built    *)
(*     from a return-period table and an ensemble forecast table;          *)
(*   - forecast_report / return_period_comparison: the worker-pool fan-out *)
(*     over (river, date) tasks, the sequential document assembly, and the *)
(*     DOCX save with the optional PDF conversion.                         *)
(***************************************************************************)
EXTENDS Integers, Sequences, FiniteSets, TLC

VARIABLES
    \* ---- _add_return_period_table ----
    rp_df,          \* the caller's return-period table: rows of [period, threshold]
    ensemble_df,    \* the caller's ensemble table: [index, values, members]
    rp_df0,         \* the return-period table as it was when the caller built it
    ensemble_df0,   \* the ensemble table as it was when the caller built it
    doc_tables,     \* the tables added to doc, one per call, in call order
    \* ---- report functions ----
    fn,             \* the report function running
    output_format,  \* its output_format argument
    tasks,          \* the (river, date) pairs in the order executor.submit is called
    futures,        \* one state per submitted task: pending, running, ok, failed
    pc,             \* where the main thread is
    collected,      \* the futures whose result() the main thread has gone through
    results,        \* tasks whose result was collected, in collection order
    errors,         \* tasks whose failure was printed by the except clause
    figures,        \* the figures laid out in the document, in document order
    fs,             \* which of the two report files exist on disk
    caught,         \* the call whose exception the PDF except clause caught
    returned,       \* the path the report function returned
    overtaken       \* a task finished while an earlier submitted one had not

tableVars == <<rp_df, ensemble_df, rp_df0, ensemble_df0, doc_tables>>
reportVars == <<fn, output_format, tasks, futures, pc, collected, results, errors,
                figures, fs, caught, returned, overtaken>>
vars == <<rp_df, ensemble_df, rp_df0, ensemble_df0, doc_tables,
          fn, output_format, tasks, futures, pc, collected, results, errors,
          figures, fs, caught, returned, overtaken>>

----------------------------------------------------------------------------
(* Bounds of the model *)

\* rows of an exhaustively enumerated ensemble table
MaxRows == 3
\* ensemble members (columns)
MaxMembers == 2
\* days of a long forecast horizon, one row per day
MaxHorizon == 17
\* river ids of a report request
MaxRivers == 3
\* calls of the table builder on the same objects
MaxCalls == 2

(* Program constants *)

\* unique()[:15]
MaxForecastDays == 15
\* ThreadPoolExecutor(max_workers=5)
max_workers == 5

----------------------------------------------------------------------------
(* Timestamps.  A timestamp is a number of sub-daily slots since the epoch; *)
(* its text form "day slot" is the pair <<day, slot>>.  An index entry is   *)
(* either text (str # <<>>) or a Timestamp (str = <<>>, ts the slot count). *)

Slots == {0, 1}
SlotsPerDay == Cardinality(Slots)
ShortDays == {0, 1}

Text(d, s) == [str |-> <<d, s>>, ts |-> -1]
Timestamp(t) == [str |-> <<>>, ts |-> t]

Min(a, b) == IF a < b THEN a ELSE b

\* an offset applied on every conversion, already converted entries included
ToDatetime_Shift(e) ==
    IF e.str # <<>> THEN Timestamp(e.str[1] * SlotsPerDay + e.str[2] + 1)
                    ELSE Timestamp(e.ts + 1)

\* pd.to_datetime on one index entry: text is parsed, a Timestamp is kept
ToDatetime(e) ==
    IF e.str # <<>> THEN Timestamp(e.str[1] * SlotsPerDay + e.str[2])
                    ELSE e

\* pd.to_datetime(ensemble_df.index)
to_datetime(index) == [i \in 1..Len(index) |-> ToDatetime(index[i])]

\* DatetimeIndex.normalize(): the time of day is dropped
normalize(index) == [i \in 1..Len(index) |-> index[i].ts - (index[i].ts % SlotsPerDay)]

\* Index.unique(): each value once, in order of first appearance
RECURSIVE unique(_)
unique(s) ==
    IF s = <<>> THEN <<>>
    ELSE LET r == unique(SubSeq(s, 1, Len(s) - 1))
             x == s[Len(s)]
         IN IF \E i \in 1..Len(r) : r[i] = x THEN r ELSE Append(r, x)

\* no truncation of the days
UniqueDates_NoCap(index) == unique(normalize(index))

\* ensemble_df.index.normalize().unique()[:15]
UniqueDates(index) ==
    LET u == unique(normalize(index))
    IN SubSeq(u, 1, Min(MaxForecastDays, Len(u)))

----------------------------------------------------------------------------
(* _add_return_period_table *)

\* the positions of the rows of ensemble_df selected by
\* mask = ensemble_df.index.normalize() == unique_date
mask(index, unique_date) ==
    {i \in 1..Len(index) : normalize(index)[i] = unique_date}

\* day_data.max(axis=0): per member, the maximum over the selected rows
daily_max(df, rows) ==
    [j \in 1..df.members |->
        CHOOSE v \in {df.values[i][j] : i \in rows} :
            \A i \in rows : df.values[i][j] <= v]

\* the loop over unique_dates: a date whose day_data has rows contributes its
\* daily_max to daily_max_data and itself to forecast_dates
RECURSIVE DailyMaxLoop(_, _)
DailyMaxLoop(df, unique_dates) ==
    IF unique_dates = <<>> THEN [forecast_dates |-> <<>>, daily_max_data |-> <<>>]
    ELSE LET n == Len(unique_dates)
             before == DailyMaxLoop(df, SubSeq(unique_dates, 1, n - 1))
             unique_date == unique_dates[n]
             rows == mask(df.index, unique_date)
         IN IF Cardinality(rows) > 0
            THEN [forecast_dates |-> Append(before.forecast_dates, unique_date),
                  daily_max_data |-> Append(before.daily_max_data, daily_max(df, rows))]
            ELSE before

\* daily_max_df.loc[date]: the row of daily maxima labelled date
loc(daily_max_df, date) ==
    LET p == CHOOSE p \in 1..Len(daily_max_df.forecast_dates) :
                 daily_max_df.forecast_dates[p] = date
    IN daily_max_df.daily_max_data[p]

\* a member at the threshold counts as exceeding it
Exceeds_OrEqual(value, threshold) == value >= threshold

\* daily_max_values > threshold, for one member
Exceeds(value, threshold) == value > threshold

\* (daily_max_values > threshold).sum()
num_exceeding(daily_max_values, threshold) ==
    Cardinality({j \in 1..Len(daily_max_values) :
                    Exceeds(daily_max_values[j], threshold)})

\* A probability is the exact quotient num / den, or the outcome of a
\* division by zero (a fault, or a value that is not finite).
Quotient(n, d) == [fault |-> FALSE, num |-> n, den |-> d]
ZeroDivision == [fault |-> TRUE, num |-> 0, den |-> 1]

\* a / b
Divide(a, b) == IF b = 0 THEN ZeroDivision ELSE Quotient(a, b)

\* q * c
Times(q, c) == IF q.fault THEN q ELSE Quotient(q.num * c, q.den)

\* the division by the number of members left out
Probability_NoDivision(k, n) ==
    IF n > 0 THEN Times(Quotient(k, 1), 100) ELSE Quotient(0, 1)

\* the n > 0 guard left out
Probability_NoGuard(k, n) == Times(Divide(k, n), 100)

\* (num_exceeding / num_members) * 100 if num_members > 0 else 0
Probability(k, n) ==
    IF n > 0 THEN Times(Divide(k, n), 100) ELSE Quotient(0, 1)

\* one probability cell of the table
Cell(daily_max_df, date, threshold) ==
    LET daily_max_values == loc(daily_max_df, date)
    IN Probability(num_exceeding(daily_max_values, threshold),
                   Len(daily_max_values))

\* The table added to doc for rp_df and the ensemble table df, whose index
\* has been converted: the header dates and, per return period, the label
\* and one cell per forecast date.  cols is the column count of doc.add_table.
Table(rp, df) ==
    LET daily_max_df == DailyMaxLoop(df, UniqueDates(df.index))
        forecast_dates == daily_max_df.forecast_dates
        num_dates == Len(forecast_dates)
    IN [cols  |-> num_dates + 1,
        dates |-> forecast_dates,
        rows  |-> [r \in 1..Len(rp) |->
                     [period    |-> rp[r].period,
                      threshold |-> rp[r].threshold,
                      cells     |-> [c \in 1..num_dates |->
                                       Cell(daily_max_df, forecast_dates[c],
                                            rp[r].threshold)]]]]

\* _add_return_period_table(doc, rp_df, ensemble_df, forecast_df)
AddReturnPeriodTable ==
    /\ pc = "table"
    /\ Len(doc_tables) < MaxCalls
    /\ LET converted == [ensemble_df EXCEPT !.index = to_datetime(@)]
       IN /\ ensemble_df' = converted
          /\ doc_tables' = Append(doc_tables, Table(rp_df, converted))
    /\ UNCHANGED <<rp_df, rp_df0, ensemble_df0>>
    /\ UNCHANGED reportVars

----------------------------------------------------------------------------
(* The tables the builder is called with *)

SeqsUpTo(S, n) == UNION {[1..k -> S] : k \in 0..n}

\* a member's flow at row i of n rows
Flow(profile, i, n) ==
    CASE profile = "flat"    -> 2
      [] profile = "rising"  -> i
      [] profile = "falling" -> n + 1 - i

Profiles == {"flat", "rising", "falling"}

EnsembleOf(index, profiles) ==
    [index   |-> index,
     members |-> Len(profiles),
     values  |-> [i \in 1..Len(index) |->
                    [j \in 1..Len(profiles) |-> Flow(profiles[j], i, Len(index))]]]

\* every index of at most MaxRows rows, in any order, as text or as Timestamps
ShortIndexes ==
    LET stamps == ShortDays \X Slots
        seqs == SeqsUpTo(stamps, MaxRows)
    IN {[i \in 1..Len(s) |-> Text(s[i][1], s[i][2])] : s \in seqs}
       \cup {[i \in 1..Len(s) |-> Timestamp(s[i][1] * SlotsPerDay + s[i][2])] : s \in seqs}

\* one row per day over a horizon of n days, chronological or reversed
LongIndexes ==
    LET day(n, i, order) == IF order = "asc" THEN i - 1 ELSE n - i
    IN UNION {{[i \in 1..n |-> Text(day(n, i, order), day(n, i, order) % SlotsPerDay)],
               [i \in 1..n |-> Timestamp(day(n, i, order) * SlotsPerDay)]}
              : <<n, order>> \in ((MaxRows + 1)..MaxHorizon) \X {"asc", "desc"}}

Ensembles ==
    {EnsembleOf(index, profiles) :
        <<index, profiles>> \in (ShortIndexes \cup LongIndexes) \X SeqsUpTo(Profiles, MaxMembers)}

RpTables ==
    {<<>>,
     <<[period |-> "2yr", threshold |-> 1], [period |-> "10yr", threshold |-> 2]>>}

\* 4 members, 2 timestamps of one day, daily maxima 50, 150, 600, 90
ScenarioEnsemble ==
    [index   |-> <<Text(0, 0), Text(0, 1)>>,
     members |-> 4,
     values  |-> <<<<50, 150, 600, 10>>, <<20, 100, 300, 90>>>>]

ScenarioRp ==
    <<[period |-> "2yr", threshold |-> 100], [period |-> "10yr", threshold |-> 500]>>

\* A path is a stem and an extension.
NoPath == [stem |-> "", ext |-> ""]

ReportIdle ==
    /\ fn = "none"
    /\ output_format = "docx"
    /\ tasks = <<>>
    /\ futures = <<>>
    /\ collected = {}
    /\ results = <<>>
    /\ errors = <<>>
    /\ figures = <<>>
    /\ fs = {}
    /\ caught = "none"
    /\ returned = NoPath
    /\ overtaken = FALSE

InitTable ==
    /\ \/ rp_df = ScenarioRp /\ ensemble_df = ScenarioEnsemble
       \/ rp_df \in RpTables /\ ensemble_df \in Ensembles
    /\ rp_df0 = rp_df
    /\ ensemble_df0 = ensemble_df
    /\ doc_tables = <<>>
    /\ pc = "table"
    /\ ReportIdle

NextTable == AddReturnPeriodTable

SpecTable == InitTable /\ [][NextTable]_vars

----------------------------------------------------------------------------
(* forecast_report and return_period_comparison *)

\* the file the document is saved to
docx_path == [stem |-> "report", ext |-> ".docx"]

\* docx_path.replace('.docx', '.pdf')
pdf_path == [docx_path EXCEPT !.ext = ".pdf"]

\* output_format.lower()
Lower(format) == IF format = "PDF" THEN "pdf" ELSE format

\* The order in which executor.submit is called: forecast_report loops over
\* the dates and, inside, over the rivers; return_period_comparison loops
\* over the rivers and, inside, over the dates.
SubmissionOrder(f, riverids, dates) ==
    LET nr == Len(riverids)
        nd == Len(dates)
    IN IF f = "forecast_report"
       THEN [k \in 1..(nr * nd) |->
                [river |-> riverids[((k - 1) % nr) + 1], date |-> dates[((k - 1) \div nr) + 1]]]
       ELSE [k \in 1..(nr * nd) |->
                [river |-> riverids[((k - 1) \div nd) + 1], date |-> dates[((k - 1) % nd) + 1]]]

Finished(k) == futures[k] \in {"ok", "failed"}

\* executor.submit(...): one more future, queued
Submit ==
    /\ pc = "submit"
    /\ Len(futures) < Len(tasks)
    /\ futures' = Append(futures, "pending")
    /\ UNCHANGED <<fn, output_format, tasks, pc, collected, results, errors,
                   figures, fs, caught, returned, overtaken>>
    /\ UNCHANGED tableVars

\* every task is submitted: the main thread goes on to the results
AllSubmitted ==
    /\ pc = "submit"
    /\ Len(futures) = Len(tasks)
    /\ pc' = "collect"
    /\ UNCHANGED <<fn, output_format, tasks, futures, collected, results, errors,
                   figures, fs, caught, returned, overtaken>>
    /\ UNCHANGED tableVars

\* a worker of the pool takes the task at the head of the queue; at most
\* max_workers tasks run at a time
TaskStarts(k) ==
    /\ futures[k] = "pending"
    /\ \A j \in 1..(k - 1) : futures[j] # "pending"
    /\ Cardinality({j \in 1..Len(futures) : futures[j] = "running"}) < max_workers
    /\ futures' = [futures EXCEPT ![k] = "running"]
    /\ UNCHANGED <<fn, output_format, tasks, pc, collected, results, errors,
                   figures, fs, caught, returned, overtaken>>
    /\ UNCHANGED tableVars

\* _process_forecast_task / _process_return_period_task returns
TaskSucceeds(k) ==
    /\ futures[k] = "running"
    /\ futures' = [futures EXCEPT ![k] = "ok"]
    /\ overtaken' = (overtaken \/ \E j \in 1..(k - 1) : ~Finished(j))
    /\ UNCHANGED <<fn, output_format, tasks, pc, collected, results, errors,
                   figures, fs, caught, returned>>
    /\ UNCHANGED tableVars

\* the task raises (a network error, a rendering error)
TaskFails(k) ==
    /\ futures[k] = "running"
    /\ futures' = [futures EXCEPT ![k] = "failed"]
    /\ overtaken' = (overtaken \/ \E j \in 1..(k - 1) : ~Finished(j))
    /\ UNCHANGED <<fn, output_format, tasks, pc, collected, results, errors,
                   figures, fs, caught, returned>>
    /\ UNCHANGED tableVars

\* the results are taken as the tasks complete
NextFuture_AsCompleted(collected_so_far) ==
    {k \in 1..Len(futures) : k \notin collected_so_far /\ Finished(k)}

\* The future whose result() the main thread calls next: the futures are
\* gone through in the order they were submitted (the list futures, the
\* insertion-ordered dict futures_map).
NextFuture(collected_so_far) ==
    {k \in 1..Len(futures) :
        k \notin collected_so_far /\ \A j \in 1..(k - 1) : j \in collected_so_far}

\* future.result() returns the task's result
CollectResult(k) ==
    /\ pc = "collect"
    /\ k \in NextFuture(collected)
    /\ futures[k] = "ok"
    /\ results' = Append(results, tasks[k])
    /\ collected' = collected \cup {k}
    /\ UNCHANGED <<fn, output_format, tasks, futures, pc, errors,
                   figures, fs, caught, returned, overtaken>>
    /\ UNCHANGED tableVars

\* return_period_comparison: future.result() raises inside the try, the
\* except clause prints the error and the loop goes on
CatchTaskError(k) ==
    /\ pc = "collect"
    /\ fn = "return_period_comparison"
    /\ k \in NextFuture(collected)
    /\ futures[k] = "failed"
    /\ errors' = Append(errors, tasks[k])
    /\ collected' = collected \cup {k}
    /\ UNCHANGED <<fn, output_format, tasks, futures, pc, results,
                   figures, fs, caught, returned, overtaken>>
    /\ UNCHANGED tableVars

\* forecast_report: f.result() raises inside the list comprehension, which
\* nothing guards: the exception leaves the with block
PropagateTaskError(k) ==
    /\ pc = "collect"
    /\ fn = "forecast_report"
    /\ k \in NextFuture(collected)
    /\ futures[k] = "failed"
    /\ pc' = "unwinding"
    /\ UNCHANGED <<fn, output_format, tasks, futures, collected, results, errors,
                   figures, fs, caught, returned, overtaken>>
    /\ UNCHANGED tableVars

\* the with block ends after the last result
LeaveWith ==
    /\ pc = "collect"
    /\ collected = 1..Len(futures)
    /\ pc' = "assemble"
    /\ UNCHANGED <<fn, output_format, tasks, futures, collected, results, errors,
                   figures, fs, caught, returned, overtaken>>
    /\ UNCHANGED tableVars

\* the with block left by an exception: the executor's shutdown waits for
\* every submitted task, then the exception reaches the caller
Unwind ==
    /\ pc = "unwinding"
    /\ \A k \in 1..Len(futures) : Finished(k)
    /\ pc' = "raised"
    /\ UNCHANGED <<fn, output_format, tasks, futures, collected, results, errors,
                   figures, fs, caught, returned, overtaken>>
    /\ UNCHANGED tableVars

\* one pass of the loop that lays out the results: the picture, its caption
\* "Figure n" and, in return_period_comparison, the return-period table
AddFigure ==
    /\ pc = "assemble"
    /\ Len(figures) < Len(results)
    /\ figures' = Append(figures,
                         [num   |-> Len(figures) + 1,
                          task  |-> results[Len(figures) + 1],
                          table |-> (fn = "return_period_comparison")])
    /\ UNCHANGED <<fn, output_format, tasks, futures, pc, collected, results, errors,
                   fs, caught, returned, overtaken>>
    /\ UNCHANGED tableVars

\* doc.save(docx_path)
SaveDocx ==
    /\ pc = "assemble"
    /\ Len(figures) = Len(results)
    /\ fs' = fs \cup {docx_path}
    /\ pc' = "saved"
    /\ UNCHANGED <<fn, output_format, tasks, futures, collected, results, errors,
                   figures, caught, returned, overtaken>>
    /\ UNCHANGED tableVars

\* doc.save(docx_path) raises: the report function raises
SaveRaises ==
    /\ pc = "assemble"
    /\ Len(figures) = Len(results)
    /\ pc' = "save_raised"
    /\ UNCHANGED <<fn, output_format, tasks, futures, collected, results, errors,
                   figures, fs, caught, returned, overtaken>>
    /\ UNCHANGED tableVars

\* output_format is not pdf: the path of the DOCX is returned
ReturnDocx ==
    /\ pc = "saved"
    /\ Lower(output_format) # "pdf"
    /\ returned' = docx_path
    /\ pc' = "done"
    /\ UNCHANGED <<fn, output_format, tasks, futures, collected, results, errors,
                   figures, fs, caught, overtaken>>
    /\ UNCHANGED tableVars

\* the except clause answers with the path of the PDF
ExceptPath_Pdf(docx, pdf) == pdf

\* the path the except clause answers with
ExceptPath(docx, pdf) == docx

\* convert(docx_path, pdf_path) returns: the PDF is written
ConvertOk ==
    /\ pc = "saved"
    /\ Lower(output_format) = "pdf"
    /\ fs' = fs \cup {pdf_path}
    /\ pc' = "converted"
    /\ UNCHANGED <<fn, output_format, tasks, futures, collected, results, errors,
                   figures, caught, returned, overtaken>>
    /\ UNCHANGED tableVars

\* convert(docx_path, pdf_path) raises, having written a partial PDF or
\* nothing; the except clause answers with the DOCX
ConvertRaises ==
    /\ pc = "saved"
    /\ Lower(output_format) = "pdf"
    /\ \E partial \in BOOLEAN : fs' = IF partial THEN fs \cup {pdf_path} ELSE fs
    /\ caught' = "convert"
    /\ returned' = ExceptPath(docx_path, pdf_path)
    /\ pc' = "done"
    /\ UNCHANGED <<fn, output_format, tasks, futures, collected, results, errors,
                   figures, overtaken>>
    /\ UNCHANGED tableVars

\* os.remove(docx_path) returns: the DOCX is gone
RemoveOk ==
    /\ pc = "converted"
    /\ fs' = fs \ {docx_path}
    /\ pc' = "removed"
    /\ UNCHANGED <<fn, output_format, tasks, futures, collected, results, errors,
                   figures, caught, returned, overtaken>>
    /\ UNCHANGED tableVars

\* os.remove(docx_path) raises: the DOCX stays; the except clause answers
\* with the DOCX
RemoveRaises ==
    /\ pc = "converted"
    /\ caught' = "remove"
    /\ returned' = ExceptPath(docx_path, pdf_path)
    /\ pc' = "done"
    /\ UNCHANGED <<fn, output_format, tasks, futures, collected, results, errors,
                   figures, fs, overtaken>>
    /\ UNCHANGED tableVars

\* abs_path = os.path.abspath(pdf_path); return
ReturnPdf ==
    /\ pc = "removed"
    /\ returned' = pdf_path
    /\ pc' = "done"
    /\ UNCHANGED <<fn, output_format, tasks, futures, collected, results, errors,
                   figures, fs, caught, overtaken>>
    /\ UNCHANGED tableVars

(* The report requests *)

ReportFunctions == {"forecast_report", "return_period_comparison"}
OutputFormats == {"docx", "pdf", "PDF"}
DateLists == {<<20240101>>, <<20240101, 20240102>>}
RiverLists == {[i \in 1..n |-> 760000000 + i] : n \in 0..MaxRivers}

\* an ensemble table of no rows and no members
NoEnsemble == [index |-> <<>>, members |-> 0, values |-> <<>>]

InitReport ==
    /\ fn \in ReportFunctions
    /\ output_format \in OutputFormats
    /\ \E riverids \in RiverLists, dates \in DateLists :
           tasks = SubmissionOrder(fn, riverids, dates)
    /\ futures = <<>>
    /\ pc = "submit"
    /\ collected = {}
    /\ results = <<>>
    /\ errors = <<>>
    /\ figures = <<>>
    /\ fs \in {{}, {pdf_path}}
    /\ caught = "none"
    /\ returned = NoPath
    /\ overtaken = FALSE
    /\ rp_df = <<>>
    /\ rp_df0 = <<>>
    /\ ensemble_df = NoEnsemble
    /\ ensemble_df0 = NoEnsemble
    /\ doc_tables = <<>>

NextReport ==
    \/ Submit
    \/ AllSubmitted
    \/ \E k \in 1..Len(futures) : TaskStarts(k)
    \/ \E k \in 1..Len(futures) : TaskSucceeds(k)
    \/ \E k \in 1..Len(futures) : TaskFails(k)
    \/ \E k \in 1..Len(futures) : CollectResult(k)
    \/ \E k \in 1..Len(futures) : CatchTaskError(k)
    \/ \E k \in 1..Len(futures) : PropagateTaskError(k)
    \/ LeaveWith
    \/ Unwind
    \/ AddFigure
    \/ SaveDocx
    \/ SaveRaises
    \/ ReturnDocx
    \/ ConvertOk
    \/ ConvertRaises
    \/ RemoveOk
    \/ RemoveRaises
    \/ ReturnPdf

SpecReport == InitReport /\ [][NextReport]_vars

----------------------------------------------------------------------------
(* Properties of _add_return_period_table, stated on the tables the caller *)
(* built (ensemble_df0, rp_df0) and on the tables added to doc.            *)

\* the calendar day of an index entry of the caller's table
CalendarDay(e) == IF e.str # <<>> THEN e.str[1] ELSE e.ts \div SlotsPerDay

\* the calendar day a date column stands for
DayOfDate(date) == date \div SlotsPerDay

\* the distinct calendar days present in the caller's ensemble table
DistinctDays == {CalendarDay(ensemble_df0.index[i]) : i \in 1..Len(ensemble_df0.index)}

\* the days of S in chronological order
RECURSIVE Chronological(_)
Chronological(S) ==
    IF S = {} THEN <<>>
    ELSE LET first == CHOOSE d \in S : \A e \in S : d <= e
         IN <<first>> \o Chronological(S \ {first})

\* a member's daily maximum: the maximum of its values over all timestamps
\* falling on the calendar day
DailyMaximum(member, day) ==
    LET onDay == {i \in 1..Len(ensemble_df0.index) :
                     CalendarDay(ensemble_df0.index[i]) = day}
        vals == {ensemble_df0.values[i][member] : i \in onDay}
    IN CHOOSE v \in vals : \A w \in vals : w <= v

\* the members whose daily maximum is strictly greater than the threshold
MembersAbove(day, threshold) ==
    {m \in 1..ensemble_df0.members : DailyMaximum(m, day) > threshold}

\* every cell of every table added to doc satisfies P(table, row, column)
EveryCell(P(_, _, _)) ==
    \A t \in 1..Len(doc_tables) :
        \A r \in 1..Len(doc_tables[t].rows) :
            \A c \in 1..Len(doc_tables[t].rows[r].cells) :
                P(doc_tables[t], r, c)

\* whether the cell is the number v
CellIs(cell, v) == ~cell.fault /\ cell.den > 0 /\ cell.num = v * cell.den

\* C1: for every return period and every retained date the cell equals
\* k / n * 100, n the number of ensemble members and k the number of members
\* whose daily maximum is strictly greater than the period's threshold.
C1_CellIsShareOfMembersAbove ==
    LET n == ensemble_df0.members
        Right(t, r, c) ==
            LET cell == t.rows[r].cells[c]
                k == Cardinality(MembersAbove(DayOfDate(t.dates[c]), rp_df0[r].threshold))
            IN n > 0 => /\ ~cell.fault
                        /\ cell.den > 0
                        /\ cell.num * n = k * 100 * cell.den
    IN EveryCell(Right)

\* the scenario of daily maxima 50, 150, 600, 90 has given 50 for the
\* threshold 100 and 25 for the threshold 500
C1_Witness ==
    /\ ensemble_df0 = ScenarioEnsemble
    /\ rp_df0 = ScenarioRp
    /\ Len(doc_tables) >= 1
    /\ CellIs(doc_tables[1].rows[1].cells[1], 50)
    /\ CellIs(doc_tables[1].rows[2].cells[1], 25)

\* C2: every probability cell lies in the closed range [0, 100].
C2_CellInRange ==
    LET InRange(t, r, c) ==
            LET cell == t.rows[r].cells[c]
            IN /\ ~cell.fault
               /\ cell.den > 0
               /\ 0 <= cell.num
               /\ cell.num <= 100 * cell.den
    IN EveryCell(InRange)

\* one table holds a cell of 0, a cell of 100 and a cell strictly between
C2_Witness ==
    \E t \in 1..Len(doc_tables) :
        LET cells == UNION {{doc_tables[t].rows[r].cells[c] :
                                c \in 1..Len(doc_tables[t].dates)} :
                            r \in 1..Len(doc_tables[t].rows)}
        IN /\ \E x \in cells : CellIs(x, 0)
           /\ \E x \in cells : CellIs(x, 100)
           /\ \E x \in cells : ~x.fault /\ 0 < x.num /\ x.num < 100 * x.den

\* C3: the date columns are the first 15 distinct calendar days of the
\* ensemble table in chronological order, whatever the order of its rows.
C3_DatesChronological ==
    \A t \in 1..Len(doc_tables) :
        LET days == Chronological(DistinctDays)
            kept == SubSeq(days, 1, Min(MaxForecastDays, Len(days)))
        IN /\ Len(doc_tables[t].dates) = Len(kept)
           /\ \A c \in 1..Len(kept) : DayOfDate(doc_tables[t].dates[c]) = kept[c]

\* C4: the table has at most 15 date columns and at most one per distinct
\* calendar day of the input; with fewer than 15 days it has exactly one
\* column per day, and no column beyond the label and the dates.
C4_ColumnCount ==
    \A t \in 1..Len(doc_tables) :
        LET n == Len(doc_tables[t].dates)
        IN /\ n <= MaxForecastDays
           /\ n <= Cardinality(DistinctDays)
           /\ Cardinality(DistinctDays) < MaxForecastDays => n = Cardinality(DistinctDays)
           /\ doc_tables[t].cols = n + 1
           /\ \A r \in 1..Len(doc_tables[t].rows) : Len(doc_tables[t].rows[r].cells) = n

\* a table was built from more than 15 days, and it has 15 date columns
C4_Witness ==
    /\ Cardinality(DistinctDays) > MaxForecastDays
    /\ Len(doc_tables) >= 1
    /\ Len(doc_tables[1].dates) = MaxForecastDays
    /\ Len(doc_tables[1].rows) >= 1

\* C5: after the call the thresholds table and the ensemble table, its index
\* included, are as the caller built them.
C5_InputsUnchanged ==
    Len(doc_tables) >= 1 => (rp_df = rp_df0 /\ ensemble_df = ensemble_df0)

\* C8: with zero ensemble members the probability for every threshold on
\* every retained date is 0, and no division fault is raised.
C8_ZeroMembersGiveZero ==
    LET Zero(t, r, c) == ensemble_df0.members = 0 => CellIs(t.rows[r].cells[c], 0)
    IN EveryCell(Zero)

\* a table with rows and date columns was built from an ensemble of no members
C8_Witness ==
    /\ ensemble_df0.members = 0
    /\ Len(doc_tables) >= 1
    /\ Len(doc_tables[1].rows) >= 1
    /\ Len(doc_tables[1].dates) >= 2
    /\ CellIs(doc_tables[1].rows[1].cells[1], 0)

\* C9: a second call with the very objects of the first yields the same
\* table of dates and percentages.
C9_SecondCallSameTable ==
    \A t \in 1..Len(doc_tables) : doc_tables[t] = doc_tables[1]

\* the builder was called twice on a text-indexed table, which the first call
\* converted, and built a table with percentages above 0
C9_Witness ==
    /\ Len(doc_tables) >= 2
    /\ ensemble_df0.index # <<>>
    /\ ensemble_df0.index[1].str # <<>>
    /\ ensemble_df # ensemble_df0
    /\ Len(doc_tables[2].dates) >= 2
    /\ \E r \in 1..Len(doc_tables[2].rows) : ~CellIs(doc_tables[2].rows[r].cells[1], 0)

----------------------------------------------------------------------------
(* Properties of the report functions *)

\* the submitted tasks that returned a result, in submission order
RECURSIVE SucceededUpTo(_)
SucceededUpTo(n) ==
    IF n = 0 THEN <<>>
    ELSE IF futures[n] = "ok" THEN Append(SucceededUpTo(n - 1), tasks[n])
                              ELSE SucceededUpTo(n - 1)

SomeTaskFailed == \E k \in 1..Len(futures) : futures[k] = "failed"

\* the tasks of the figures, in document order
FigureTasks == [i \in 1..Len(figures) |-> figures[i].task]

\* the main thread is past the worker pool
PastPool == pc \in {"assemble", "saved", "converted", "removed", "done",
                    "save_raised", "raised"}

\* C6: a failure in one task is caught and reported for that task and does
\* not abort the others: every submitted task runs to completion and the
\* report is still assembled from the successful results, in forecast_report
\* and in return_period_comparison.
C6_TaskFailureContained ==
    (PastPool /\ SomeTaskFailed /\ Len(futures) >= 2) =>
        /\ \A k \in 1..Len(futures) : Finished(k)
        /\ pc # "raised"
        /\ \A k \in 1..Len(futures) :
               futures[k] = "failed" => \E e \in 1..Len(errors) : errors[e] = tasks[k]
        /\ pc = "done" => FigureTasks = SucceededUpTo(Len(futures))

\* C7: whatever the order in which the tasks complete, the figures appear in
\* the document in the order the tasks were submitted, the failed ones
\* skipped.
C7_DocumentInSubmissionOrder ==
    /\ pc \in {"assemble", "saved", "converted", "removed", "done", "save_raised"} =>
           /\ Len(figures) <= Len(SucceededUpTo(Len(futures)))
           /\ FigureTasks = SubSeq(SucceededUpTo(Len(futures)), 1, Len(figures))
           /\ \A i \in 1..Len(figures) : figures[i].num = i
    /\ pc \in {"saved", "converted", "removed", "done"} =>
           FigureTasks = SucceededUpTo(Len(futures))

\* a document of several figures was assembled although a later task had
\* completed before an earlier one and a task had failed
C7_Witness ==
    /\ pc = "done"
    /\ overtaken
    /\ SomeTaskFailed
    /\ Len(figures) >= 2
    /\ Len(futures) > max_workers

\* C10: with output_format 'pdf' the returned path names a file that exists;
\* the PDF path is returned only if the conversion and the removal of the
\* DOCX both succeeded; if either raised, the DOCX path is returned and the
\* DOCX is present; the DOCX is removed only after a successful conversion.
C10_ReturnedPathExists ==
    Lower(output_format) = "pdf" =>
        /\ returned # NoPath => returned \in fs
        /\ returned = pdf_path => (caught = "none" /\ docx_path \notin fs)
        /\ (returned # NoPath /\ caught # "none") =>
               (returned = docx_path /\ docx_path \in fs)
        /\ (pc \in {"saved", "converted", "removed", "done"} /\ docx_path \notin fs) =>
               (pc \in {"removed", "done"} /\ caught = "none" /\ pdf_path \in fs)

\* on a disk holding no earlier PDF, the conversion raised without writing
\* one and the path of the DOCX was returned
C10_Witness ==
    /\ Lower(output_format) = "pdf"
    /\ pc = "done"
    /\ caught = "convert"
    /\ pdf_path \notin fs
    /\ returned = docx_path
    /\ Len(figures) >= 2

====
